---- MODULE Spec2Model ----
(***************************************************************************)
(* State-machine model of the programs of caiquemiranda/backend-base.      *)
(* The repository holds independent programs; a behaviour is a run of one  *)
(* of them, selected by `app` in the initial state.                        *)
(*                                                                         *)
(*   app10  Flask tasks API       (src/app10-comunicacao-flask-react)      *)
(*   app11  FastAPI form API      (src/app11-formulario-react-fastapi)     *)
(*   app9   FastAPI items API     (src/app9-crud-fastapi-sqlite)           *)
(*   app12  FastAPI items API     (src/app12-crud-fastapi-react-sqlite)    *)
(*   app11_react  the React client of app11 against its API                *)
(*   app12_react  the React client of app12 against its API                *)
(*   python       one of the twelve source files run by the interpreter     *)
(*                                                                         *)
(* An optional value (Python None / JSON null / a missing request body) is *)
(* the empty tuple <<>>; a present value v is the one-element tuple <<v>>. *)
(* A JSON object is a function from its keys to its values, so an absent   *)
(* key is a key outside DOMAIN.                                            *)
(***************************************************************************)
EXTENDS Naturals, Integers, Sequences, FiniteSets, TLC

VARIABLES
    app,            \* which program this behaviour runs
    tasks,          \* app10: the module-level list `tasks`
    resp10,         \* app10: the last request served and its response
    form_submissions, \* app11: the module-level dict `form_submissions`
    resp11,         \* app11: the last request served and its response
    items,          \* app9, app12: the items table
    pc,             \* app9, app12: where each request in flight stands
    status_code,    \* app9, app12: the status code each request in flight got
    db,             \* app9, app12: the session get_db gave each request
    sessions,       \* app9, app12: the sessions that are open
    location,       \* app12_react: the route the router shows
    ItemList,       \* app12_react: the state of the ItemList component
    ItemDetail,     \* app12_react: the state of the ItemDetail component
    dialog,         \* app12_react: the window.confirm dialog on screen
    confirmed,      \* app12_react: what window.confirm last returned
    requests,       \* app12_react: the DELETE requests awaited
    fields,         \* app11_react: the values in the form's inputs
    isSubmitting,   \* app11_react: UserForm's isSubmitting state
    submissionResult, \* app11_react: UserForm's submissionResult state
    awaiting,       \* app11_react: the data of the submitForm call awaited
    file,           \* python: the source file being run
    run_as,         \* python: as a script or as an imported module
    stmt,           \* python: how many top-level statements have been executed
    exited,         \* python: the run of the file has ended
    effects         \* python: what the run has done outside evaluating constants

vars == <<app, tasks, resp10, form_submissions, resp11,
          items, pc, status_code, db, sessions,
          location, ItemList, ItemDetail, dialog, confirmed, requests,
          fields, isSubmitting, submissionResult, awaiting,
          file, run_as, stmt, exited, effects>>
varsPython == <<file, run_as, stmt, exited, effects>>
varsReact11 == <<fields, isSubmitting, submissionResult, awaiting>>
varsReact12 == <<location, ItemList, ItemDetail, dialog, confirmed, requests>>
varsI == <<items, pc, status_code, db, sessions>>
vars10 == <<tasks, resp10>>
vars11 == <<form_submissions, resp11>>

None == <<>>
Some(v) == <<v>>

(***************************************************************************)
(* Bounds of the model                                                     *)
(***************************************************************************)
MaxTasks == 4
MaxTaskId == 5
MaxUuid == 3
MaxItems == 2
MaxItemId == 2
MaxTime == 1
MaxSessions == 2
MaxRequests == 2

(***************************************************************************)
(* app10: Flask tasks API                                                  *)
(***************************************************************************)
InitialTasks ==
    << [id |-> 1, title |-> "Aprender Flask", completed |-> TRUE],
       [id |-> 2, title |-> "Aprender React", completed |-> FALSE],
       [id |-> 3, title |-> "Integrar Flask com React", completed |-> FALSE] >>

\* <int:task_id> path parameters the requests are drawn from
TaskIds == 0 .. MaxTaskId + 1

\* request.json values the requests are drawn from: None (no body), the
\* empty object, objects without 'title', objects with 'title'
JsonBodies10 ==
    { None,
      Some(<<>>),
      Some([completed |-> TRUE]),
      Some([title |-> "X"]),
      Some([title |-> "X", completed |-> TRUE]),
      Some([title |-> "X", completed |-> FALSE]) }

\* Python truthiness of request.json: None and {} are falsy
Truthy10(json) == json # None /\ DOMAIN json[1] # {}

\* dict.get(key, default)
DictGet(d, key, default) == IF key \in DOMAIN d THEN d[key] ELSE default

\* next((task for task in tasks if task["id"] == task_id), None):
\* index of the first task with that id, 0 when there is none
FindTask(ts, task_id) ==
    IF \E i \in 1 .. Len(ts) : ts[i].id = task_id
    THEN CHOOSE i \in 1 .. Len(ts) :
            /\ ts[i].id = task_id
            /\ \A j \in 1 .. i - 1 : ts[j].id # task_id
    ELSE 0

\* max(task["id"] for task in tasks); only defined on a non-empty list
MaxId10(ts) ==
    CHOOSE m \in { ts[i].id : i \in 1 .. Len(ts) } :
        \A i \in 1 .. Len(ts) : ts[i].id <= m

\* list.remove(x): drops the first element equal to x
ListRemove(ts, x) ==
    LET i == CHOOSE k \in 1 .. Len(ts) :
                 ts[k] = x /\ \A j \in 1 .. k - 1 : ts[j] # x
    IN  SubSeq(ts, 1, i - 1) \o SubSeq(ts, i + 1, Len(ts))

ErrNotFound10 == [error |-> "Tarefa nao encontrada"]
ErrInvalid10 == [error |-> "Dados invalidos"]

Reply10(op, task_id, status, body) ==
    [op |-> op, task_id |-> task_id, status |-> status, body |-> body]

get_tasks ==
    /\ app = "app10"
    /\ resp10' = Reply10("get_tasks", None, 200, tasks)
    /\ UNCHANGED <<app, varsPython, varsReact11, varsReact12, tasks, vars11, varsI>>

get_task(task_id) ==
    /\ app = "app10"
    /\ LET i == FindTask(tasks, task_id) IN
         resp10' = IF i # 0
                   THEN Reply10("get_task", Some(task_id), 200, tasks[i])
                   ELSE Reply10("get_task", Some(task_id), 404, ErrNotFound10)
    /\ UNCHANGED <<app, varsPython, varsReact11, varsReact12, tasks, vars11, varsI>>

\* create_task without the 'title' test: a body without 'title' is stored
\* with an empty title
Mutant_create_task(json) ==
    /\ app = "app10"
    /\ IF ~Truthy10(json)
       THEN /\ resp10' = Reply10("create_task", None, 400, ErrInvalid10)
            /\ UNCHANGED tasks
       ELSE LET task == [id |-> IF tasks = <<>> THEN 1 ELSE MaxId10(tasks) + 1,
                         title |-> DictGet(json[1], "title", ""),
                         completed |-> DictGet(json[1], "completed", FALSE)]
            IN  /\ Len(tasks) < MaxTasks
                /\ task.id <= MaxTaskId
                /\ tasks' = Append(tasks, task)
                /\ resp10' = Reply10("create_task", None, 201, task)
    /\ UNCHANGED <<app, varsPython, varsReact11, varsReact12, vars11, varsI>>

create_task(json) ==
    /\ app = "app10"
    /\ IF ~Truthy10(json) \/ "title" \notin DOMAIN json[1]
       THEN /\ resp10' = Reply10("create_task", None, 400, ErrInvalid10)
            /\ UNCHANGED tasks
       ELSE IF tasks = <<>>
       THEN \* max() of an empty sequence raises ValueError: Flask answers 500
            /\ resp10' = Reply10("create_task", None, 500, None)
            /\ UNCHANGED tasks
       ELSE LET task == [id |-> MaxId10(tasks) + 1,
                         title |-> json[1].title,
                         completed |-> DictGet(json[1], "completed", FALSE)]
            IN  /\ Len(tasks) < MaxTasks
                /\ task.id <= MaxTaskId
                /\ tasks' = Append(tasks, task)
                /\ resp10' = Reply10("create_task", None, 201, task)
    /\ UNCHANGED <<app, varsPython, varsReact11, varsReact12, vars11, varsI>>

\* update_task with its two tests in the other order: the body is looked at
\* before the task is looked up
Mutant_update_task(task_id, json) ==
    /\ app = "app10"
    /\ LET i == FindTask(tasks, task_id) IN
         IF ~Truthy10(json)
         THEN /\ resp10' = Reply10("update_task", Some(task_id), 400, ErrInvalid10)
              /\ UNCHANGED tasks
         ELSE IF i = 0
         THEN /\ resp10' = Reply10("update_task", Some(task_id), 404, ErrNotFound10)
              /\ UNCHANGED tasks
         ELSE LET task == [tasks[i] EXCEPT
                             !.title = DictGet(json[1], "title", @),
                             !.completed = DictGet(json[1], "completed", @)]
              IN  /\ tasks' = [tasks EXCEPT ![i] = task]
                  /\ resp10' = Reply10("update_task", Some(task_id), 200, task)
    /\ UNCHANGED <<app, varsPython, varsReact11, varsReact12, vars11, varsI>>

update_task(task_id, json) ==
    /\ app = "app10"
    /\ LET i == FindTask(tasks, task_id) IN
         IF i = 0
         THEN /\ resp10' = Reply10("update_task", Some(task_id), 404, ErrNotFound10)
              /\ UNCHANGED tasks
         ELSE IF ~Truthy10(json)
         THEN /\ resp10' = Reply10("update_task", Some(task_id), 400, ErrInvalid10)
              /\ UNCHANGED tasks
         ELSE LET task == [tasks[i] EXCEPT
                             !.title = DictGet(json[1], "title", @),
                             !.completed = DictGet(json[1], "completed", @)]
              IN  /\ tasks' = [tasks EXCEPT ![i] = task]
                  /\ resp10' = Reply10("update_task", Some(task_id), 200, task)
    /\ UNCHANGED <<app, varsPython, varsReact11, varsReact12, vars11, varsI>>

delete_task(task_id) ==
    /\ app = "app10"
    /\ LET i == FindTask(tasks, task_id) IN
         IF i = 0
         THEN /\ resp10' = Reply10("delete_task", Some(task_id), 404, ErrNotFound10)
              /\ UNCHANGED tasks
         ELSE /\ tasks' = ListRemove(tasks, tasks[i])
              /\ resp10' = Reply10("delete_task", Some(task_id), 200, [success |-> TRUE])
    /\ UNCHANGED <<app, varsPython, varsReact11, varsReact12, vars11, varsI>>

Init10 ==
    /\ tasks = InitialTasks
    /\ resp10 = Reply10("none", None, 0, None)

Next10 ==
    \/ get_tasks
    \/ \E task_id \in TaskIds : get_task(task_id)
    \/ \E json \in JsonBodies10 : create_task(json)
    \/ \E task_id \in TaskIds, json \in JsonBodies10 : update_task(task_id, json)
    \/ \E task_id \in TaskIds : delete_task(task_id)

(***************************************************************************)
(* app11: FastAPI form API                                                 *)
(***************************************************************************)
NameMinLen == 3
NameMaxLen == 50
AgeMin == 18
AgeMax == 120
MessageMinLen == 10
MessageMaxLen == 500

\* Character classes of Python's re on str, over the characters of the samples
Digit == {"0", "1", "2", "3", "4", "5", "6", "7", "8", "9"}
Whitespace == {" ", "\t", "\n", "\r", "\f"}

\* The phone pattern r'^\(?\d{2}\)?[\s-]?9?\d{4}[-\s]?\d{4}$' as a sequence of
\* one-character items, each a character class and whether it is optional
PhonePattern ==
    << [chars |-> {"("}, opt |-> TRUE],
       [chars |-> Digit, opt |-> FALSE],
       [chars |-> Digit, opt |-> FALSE],
       [chars |-> {")"}, opt |-> TRUE],
       [chars |-> Whitespace \cup {"-"}, opt |-> TRUE],
       [chars |-> {"9"}, opt |-> TRUE],
       [chars |-> Digit, opt |-> FALSE],
       [chars |-> Digit, opt |-> FALSE],
       [chars |-> Digit, opt |-> FALSE],
       [chars |-> Digit, opt |-> FALSE],
       [chars |-> {"-"} \cup Whitespace, opt |-> TRUE],
       [chars |-> Digit, opt |-> FALSE],
       [chars |-> Digit, opt |-> FALSE],
       [chars |-> Digit, opt |-> FALSE],
       [chars |-> Digit, opt |-> FALSE] >>

\* The positions of s (a sequence of characters) the matcher can stand at after
\* the first k items of the pattern, starting at position 1 (re.match, '^')
RECURSIVE MatchPositions(_, _, _)
MatchPositions(pattern, s, k) ==
    IF k = 0 THEN {1}
    ELSE LET before == MatchPositions(pattern, s, k - 1)
             item == pattern[k]
             taken == { i + 1 : i \in { j \in before :
                                          j <= Len(s) /\ s[j] \in item.chars } }
         IN  IF item.opt THEN before \cup taken ELSE taken

\* re.match(pattern, v): '$' matches at the end of the string and also just
\* before a newline that ends the string
ReMatchPhone(v) ==
    \E i \in MatchPositions(PhonePattern, v, Len(PhonePattern)) :
        \/ i = Len(v) + 1
        \/ i = Len(v) /\ v[i] = "\n"

\* Request values the fields are drawn from.  Strings whose length alone is
\* read are TLA+ strings; the phone, which the pattern reads character by
\* character, is a sequence of characters.
Name2 == "Al"
Name3 == "Ana"
Name50 == "abcdefghijabcdefghijabcdefghijabcdefghijabcdefghij"
Name51 == "abcdefghijabcdefghijabcdefghijabcdefghijabcdefghija"
Message9 == "abcdefghi"
Message10 == "abcdefghij"
Message500 == "abcdefghijabcdefghijabcdefghijabcdefghijabcdefghijabcdefghijabcdefghijabcdefghijabcdefghijabcdefghijabcdefghijabcdefghijabcdefghijabcdefghijabcdefghijabcdefghijabcdefghijabcdefghijabcdefghijabcdefghijabcdefghijabcdefghijabcdefghijabcdefghijabcdefghijabcdefghijabcdefghijabcdefghijabcdefghijabcdefghijabcdefghijabcdefghijabcdefghijabcdefghijabcdefghijabcdefghijabcdefghijabcdefghijabcdefghijabcdefghijabcdefghijabcdefghijabcdefghijabcdefghijabcdefghijabcdefghijabcdefghijabcdefghijabcdefghijabcdefghij"
Message501 == "abcdefghijabcdefghijabcdefghijabcdefghijabcdefghijabcdefghijabcdefghijabcdefghijabcdefghijabcdefghijabcdefghijabcdefghijabcdefghijabcdefghijabcdefghijabcdefghijabcdefghijabcdefghijabcdefghijabcdefghijabcdefghijabcdefghijabcdefghijabcdefghijabcdefghijabcdefghijabcdefghijabcdefghijabcdefghijabcdefghijabcdefghijabcdefghijabcdefghijabcdefghijabcdefghijabcdefghijabcdefghijabcdefghijabcdefghijabcdefghijabcdefghijabcdefghijabcdefghijabcdefghijabcdefghijabcdefghijabcdefghijabcdefghijabcdefghijabcdefghija"
PhoneFormatted == <<"(", "1", "1", ")", " ", "9", "9", "9", "9", "9", "-", "8", "8", "8", "8">>
PhoneDigits10 == <<"1", "1", "3", "3", "3", "3", "8", "8", "8", "8">>
PhoneNewline == <<"1", "1", "9", "3", "3", "3", "3", "8", "8", "8", "8", "\n">>
PhoneShort == <<"1", "2", "3">>
PhoneLetters == <<"(", "1", "1", ")", " ", "9", "9", "9", "9", "9", "-", "8", "8", "8", "a">>
PhoneTrailing == <<"1", "1", "3", "3", "3", "3", "8", "8", "8", "8", "7", "7">>
EmailGood == "ana@example.com"
EmailBad == "ana.example.com"

\* EmailStr hands the value to the email-validator package; of the sample
\* addresses it accepts the well-formed one
EmailStrAccepts(v) == v = EmailGood

\* A request body that passes every validator
BaseBody11 ==
    [name |-> Name3, email |-> EmailGood, phone |-> PhoneFormatted,
     age |-> Some(18), message |-> Message10, subscribe |-> TRUE]

Fields11 == {"name", "email", "phone", "age", "message", "subscribe"}

FieldSamples11(f) ==
    CASE f = "name" -> {Name2, Name3, Name50, Name51}
      [] f = "email" -> {EmailGood, EmailBad}
      [] f = "phone" -> {PhoneFormatted, PhoneDigits10, PhoneNewline,
                         PhoneShort, PhoneLetters, PhoneTrailing}
      [] f = "age" -> {None, Some(AgeMin - 1), Some(AgeMin), Some(AgeMax),
                       Some(AgeMax + 1)}
      [] f = "message" -> {Message9, Message10, Message500, Message501}
      [] f = "subscribe" -> {TRUE, FALSE}

\* JSON bodies sent straight to POST /api/submit-form: the valid body with one
\* field replaced by each of its samples, or with one field left out
Bodies11 ==
    { [BaseBody11 EXCEPT ![f] = v] : <<f, v>> \in
          UNION { {f} \X FieldSamples11(f) : f \in Fields11 } }
    \cup { [g \in Fields11 \ {f} |-> BaseBody11[g]] : f \in Fields11 }

\* Field(..., min_length, max_length) and Field(None, ge, le)
NameOK(v) == Len(v) >= NameMinLen /\ Len(v) <= NameMaxLen
MessageOK(v) == Len(v) >= MessageMinLen /\ Len(v) <= MessageMaxLen
Mutant_AgeOK(v) == v = None \/ v[1] <= AgeMax
AgeOK(v) == v = None \/ (v[1] >= AgeMin /\ v[1] <= AgeMax)

\* Pydantic's validation of a body against UserForm: required fields present
\* and every field constraint and validator satisfied
UserFormValid(body) ==
    /\ {"name", "email", "phone", "message"} \subseteq DOMAIN body
    /\ NameOK(body.name)
    /\ EmailStrAccepts(body.email)
    /\ ReMatchPhone(body.phone)
    /\ ("age" \in DOMAIN body => AgeOK(body.age))
    /\ MessageOK(body.message)

\* form_data.dict(): every field of UserForm, defaults filled in
FormDict(body) ==
    [name |-> body.name, email |-> body.email, phone |-> body.phone,
     age |-> DictGet(body, "age", None), message |-> body.message,
     subscribe |-> DictGet(body, "subscribe", FALSE)]

\* str(uuid.uuid4()) values, as numbers; a random UUID is one no earlier call
\* returned
Uuids == 1 .. MaxUuid
Mutant_Uuid4(used) == Uuids
Uuid4(used) == Uuids \ used

\* form_id path parameters of GET /api/submissions/{form_id}
FormIds == 0 .. MaxUuid

Reply11(op, form_id, status, body) ==
    [op |-> op, form_id |-> form_id, status |-> status, body |-> body]

\* POST /api/submit-form served for a request body
submit_form_served(body) ==
    /\ IF ~UserFormValid(body)
       THEN \* FastAPI answers the RequestValidationError before the handler runs
            /\ resp11' = Reply11("submit_form", None, 422, None)
            /\ UNCHANGED form_submissions
       ELSE \E form_id \in Uuid4(DOMAIN form_submissions) :
            /\ form_submissions' =
                 [k \in DOMAIN form_submissions \cup {form_id} |->
                    IF k = form_id THEN FormDict(body) ELSE form_submissions[k]]
            /\ resp11' = Reply11("submit_form", None, 200,
                                 [message |-> "Formulario recebido com sucesso!",
                                  status |-> "success",
                                  form_id |-> Some(form_id)])

submit_form(body) ==
    /\ app = "app11"
    /\ submit_form_served(body)
    /\ UNCHANGED <<app, varsPython, varsReact11, varsReact12, vars10, varsI>>

get_submission(form_id) ==
    /\ app = "app11"
    /\ resp11' = IF form_id \notin DOMAIN form_submissions
                 THEN Reply11("get_submission", Some(form_id), 404, None)
                 ELSE Reply11("get_submission", Some(form_id), 200,
                              Some(form_submissions[form_id]))
    /\ UNCHANGED <<app, varsPython, varsReact11, varsReact12, form_submissions, vars10, varsI>>

get_all_submissions ==
    /\ app = "app11"
    /\ resp11' = Reply11("get_all_submissions", None, 200, Some(form_submissions))
    /\ UNCHANGED <<app, varsPython, varsReact11, varsReact12, form_submissions, vars10, varsI>>

Init11 ==
    /\ form_submissions = <<>>
    /\ resp11 = Reply11("none", None, 0, None)

Next11 ==
    \/ \E body \in Bodies11 : submit_form(body)
    \/ \E form_id \in FormIds : get_submission(form_id)
    \/ get_all_submissions

(***************************************************************************)
(* app9 and app12: FastAPI items APIs over SQLAlchemy and SQLite           *)
(*                                                                         *)
(* A row of the items table is a function from column names to values;     *)
(* every nullable column holds an optional value.  The table is a function *)
(* from primary keys to rows.  A JSON body is a function from the keys it  *)
(* holds to optional values (null is None).                                *)
(***************************************************************************)
ItemApps == {"app9", "app12"}

TitleMinLen == 1
TitleMaxLen == 100
PriorityMin == 1
PriorityMax == 5
PriorityDefault == 1
DefaultSkip == 0
DefaultLimit == 100

\* Requests being served at the same time (sync endpoints run in a thread
\* pool), and the identities a live Session object can have
Requests == {"r1", "r2"}
SessionIds == 1 .. MaxSessions

Title0 == ""
Title100 == "abcdefghijabcdefghijabcdefghijabcdefghijabcdefghijabcdefghijabcdefghijabcdefghijabcdefghijabcdefghij"
Title101 == "abcdefghijabcdefghijabcdefghijabcdefghijabcdefghijabcdefghijabcdefghijabcdefghijabcdefghijabcdefghija"

\* item_id path parameters
ItemIds == 0 .. MaxItemId + 1

\* JSON bodies of POST requests
CreateBodies(a) ==
    IF a = "app9"
    THEN { [title |-> Some("A")],
           [title |-> Some("B"), description |-> Some("D"),
            completed |-> Some(TRUE)],
           [title |-> None],
           [description |-> Some("D")] }
    ELSE { [title |-> Some("A")],
           [title |-> Some(Title100), priority |-> Some(PriorityMax),
            completed |-> Some(TRUE)],
           [title |-> Some(Title0)],
           [title |-> Some(Title101)],
           [title |-> Some("A"), priority |-> Some(PriorityMin - 1)],
           [title |-> Some("A"), priority |-> Some(PriorityMax + 1)],
           [title |-> Some("A"), priority |-> None],
           [priority |-> Some(PriorityMin)] }

\* JSON bodies of PUT requests
UpdateBodies(a) ==
    IF a = "app9"
    THEN { <<>>,
           [title |-> Some("B")],
           [completed |-> Some(TRUE)],
           [title |-> None] }
    ELSE { <<>>,
           [title |-> Some(Title100)],
           [priority |-> Some(PriorityMax), completed |-> Some(TRUE)],
           [priority |-> None],
           [title |-> None],
           [title |-> Some(Title0)],
           [title |-> Some(Title101)],
           [priority |-> Some(PriorityMax + 1)] }

\* The values func.now() can give: the database's wall clock, read when a row
\* is written
Times == 0 .. MaxTime

\* skip and limit query parameters
SkipValues == {DefaultSkip, 1}
LimitValues == {0, 1, DefaultLimit}

\* Field(..., min_length=1, max_length=100) and Field(1, ge=1, le=5)
TitleLenOK(v) == Len(v) >= TitleMinLen /\ Len(v) <= TitleMaxLen
PriorityRangeOK(v) == v >= PriorityMin /\ v <= PriorityMax

\* ItemCreate: title is required and not null; completed (and priority) may be
\* left out but not null; app12 adds the Field constraints
ItemCreateValid(a, body) ==
    /\ "title" \in DOMAIN body /\ body.title # None
    /\ "completed" \in DOMAIN body => body.completed # None
    /\ a = "app12" =>
         /\ TitleLenOK(body.title[1])
         /\ "priority" \in DOMAIN body =>
               (body.priority # None /\ PriorityRangeOK(body.priority[1]))

\* ItemUpdate: every field Optional, so null is accepted; app12 applies the
\* Field constraints to the values that are not null
ItemUpdateValid(a, body) ==
    a = "app12" =>
         /\ ("title" \in DOMAIN body /\ body.title # None) =>
               TitleLenOK(body.title[1])
         /\ ("priority" \in DOMAIN body /\ body.priority # None) =>
               PriorityRangeOK(body.priority[1])

\* schemas.Item as response_model: the row must validate against ItemBase
ItemResponseValid(a, row) ==
    /\ row.title # None
    /\ row.completed # None
    /\ a = "app12" =>
         /\ TitleLenOK(row.title[1])
         /\ row.priority # None /\ PriorityRangeOK(row.priority[1])

\* Item(**item.dict()) inserted: the primary key is given by SQLite, created_at
\* by server_default=func.now(), updated_at stays NULL
NewRow(a, id, body, t) ==
    LET common == [id |-> id,
                   title |-> body.title,
                   description |-> DictGet(body, "description", None),
                   completed |-> DictGet(body, "completed", Some(FALSE)),
                   created_at |-> t,
                   updated_at |-> None]
    IN  IF a = "app9" THEN common
        ELSE [k \in DOMAIN common \cup {"priority"} |->
                IF k = "priority"
                THEN DictGet(body, "priority", Some(PriorityDefault))
                ELSE common[k]]

\* SQLite's rowid for an INTEGER PRIMARY KEY column: one more than the largest
\* key in the table, 1 for an empty table
\* a key made from the number of rows instead
Mutant_NextRowId(its) ==
    Cardinality(DOMAIN its) + 1

NextRowId(its) ==
    IF DOMAIN its = {} THEN 1
    ELSE 1 + CHOOSE m \in DOMAIN its : \A k \in DOMAIN its : k <= m

\* The rows in the order an unordered SELECT on the table returns them (by key)
RECURSIVE RowsInOrder(_)
RowsInOrder(its) ==
    IF DOMAIN its = {} THEN <<>>
    ELSE LET m == CHOOSE m \in DOMAIN its : \A k \in DOMAIN its : k <= m
         IN  Append(RowsInOrder([k \in DOMAIN its \ {m} |-> its[k]]), its[m])

\* crud.get_items: offset(skip).limit(limit).all()
crud_get_items(its, skip, limit) ==
    LET rows == RowsInOrder(its)
        last == IF skip + limit < Len(rows) THEN skip + limit ELSE Len(rows)
    IN  SubSeq(rows, skip + 1, last)

\* crud.get_item without its filter: first() of the whole table
Mutant_crud_get_item(its, item_id) ==
    IF DOMAIN its # {} THEN Some(RowsInOrder(its)[1]) ELSE None

\* crud.get_item: filter(Item.id == item_id).first()
crud_get_item(its, item_id) ==
    IF item_id \in DOMAIN its THEN Some(its[item_id]) ELSE None

\* crud.create_item: add, commit, refresh
crud_create_item(a, its, body, t) ==
    LET db_item == NewRow(a, NextRowId(its), body, t)
    IN  [items |-> [k \in DOMAIN its \cup {db_item.id} |->
                      IF k = db_item.id THEN db_item ELSE its[k]],
         item |-> Some(db_item),
         raised |-> FALSE]

\* The setattr loop over item.dict(exclude_unset=True)
SetAttrs(row, update_data) ==
    [k \in DOMAIN row |-> IF k \in DOMAIN update_data THEN update_data[k] ELSE row[k]]

\* crud.update_item: the setattr loop, commit, refresh.  The UPDATE is only
\* sent when a value differs from the loaded one, and then sets updated_at
\* (onupdate=func.now()); app12's title column is NOT NULL, so a null title
\* makes the commit raise IntegrityError and nothing is written.
\* (Mutant: item.dict() without exclude_unset, so the fields left out of the
\* body are written as None.)
Mutant_crud_update_item(a, its, item_id, body, t) ==
    IF item_id \notin DOMAIN its
    THEN [items |-> its, item |-> None, raised |-> FALSE]
    ELSE LET db_item == [k \in DOMAIN its[item_id] |->
                            IF k \in DOMAIN body THEN body[k]
                            ELSE IF k \in {"title", "description", "completed"}
                            THEN None
                            ELSE its[item_id][k]]
         IN  [items |-> [its EXCEPT ![item_id] = db_item],
              item |-> Some(db_item), raised |-> FALSE]

crud_update_item(a, its, item_id, body, t) ==
    IF item_id \notin DOMAIN its
    THEN [items |-> its, item |-> None, raised |-> FALSE]
    ELSE LET set == SetAttrs(its[item_id], body)
             db_item == IF set = its[item_id] THEN set
                        ELSE [set EXCEPT !.updated_at = Some(t)]
         IN  IF a = "app12" /\ set.title = None
             THEN [items |-> its, item |-> None, raised |-> TRUE]
             ELSE [items |-> [its EXCEPT ![item_id] = db_item],
                   item |-> Some(db_item), raised |-> FALSE]

\* crud.delete_item
\* (Mutant: db.query(Item).delete(), which empties the table.)
Mutant_crud_delete_item(its, item_id) ==
    IF item_id \notin DOMAIN its
    THEN [items |-> its, success |-> FALSE]
    ELSE [items |-> <<>>, success |-> TRUE]

crud_delete_item(its, item_id) ==
    IF item_id \notin DOMAIN its
    THEN [items |-> its, success |-> FALSE]
    ELSE [items |-> [k \in DOMAIN its \ {item_id} |-> its[k]], success |-> TRUE]

ReplyI(its, status, body) ==
    [items |-> its, status |-> status, body |-> body]

\* The endpoints, as functions of the table, the request and the clock reading,
\* giving the table afterwards, the status code and the response body.
\* A body that fails ItemCreate/ItemUpdate is answered 422 before the endpoint
\* is called; a returned row that fails response_model is answered 500.

\* GET /items/ (app12: /api/items/)
ep_read_items(a, its, skip, limit) ==
    LET rows == crud_get_items(its, skip, limit)
    IN  IF \A i \in 1 .. Len(rows) : ItemResponseValid(a, rows[i])
        THEN ReplyI(its, 200, rows)
        ELSE ReplyI(its, 500, <<>>)

\* POST /items/: status_code=201 in app9, the default 200 in app12
ep_create_item(a, its, body, t) ==
    IF ~ItemCreateValid(a, body)
    THEN ReplyI(its, 422, None)
    ELSE LET res == crud_create_item(a, its, body, t)
         IN  ReplyI(res.items, IF a = "app9" THEN 201 ELSE 200, res.item)

\* GET /items/{item_id}
ep_read_item(a, its, item_id) ==
    LET db_item == crud_get_item(its, item_id)
    IN  IF db_item = None THEN ReplyI(its, 404, None)
        ELSE IF ItemResponseValid(a, db_item[1]) THEN ReplyI(its, 200, db_item)
        ELSE ReplyI(its, 500, None)

\* PUT /items/{item_id}
ep_update_item(a, its, item_id, body, t) ==
    IF ~ItemUpdateValid(a, body)
    THEN ReplyI(its, 422, None)
    ELSE LET res == crud_update_item(a, its, item_id, body, t)
         IN  IF res.raised THEN ReplyI(res.items, 500, None)
             ELSE IF res.item = None THEN ReplyI(res.items, 404, None)
             ELSE IF ItemResponseValid(a, res.item[1])
             THEN ReplyI(res.items, 200, res.item)
             ELSE ReplyI(res.items, 500, None)

\* DELETE /items/{item_id}: 204 without a body in app9, 200 with a detail in
\* app12
ep_delete_item(a, its, item_id) ==
    LET res == crud_delete_item(its, item_id)
    IN  IF ~res.success THEN ReplyI(res.items, 404, None)
        ELSE ReplyI(res.items, IF a = "app9" THEN 204 ELSE 200, None)

\* SessionLocal(): a new Session object, one that is none of the open ones
\* (named by the least identity not in use)
SessionLocal(open) ==
    { s \in SessionIds \ open : \A u \in SessionIds \ open : s <= u }

\* get_db up to its yield: db = SessionLocal()
get_db_open(r) ==
    /\ app \in ItemApps
    /\ pc[r] = "idle"
    /\ \E s \in SessionLocal(sessions) :
          /\ sessions' = sessions \cup {s}
          /\ db' = [db EXCEPT ![r] = s]
    /\ pc' = [pc EXCEPT ![r] = "open"]
    /\ status_code' = [status_code EXCEPT ![r] = 0]
    /\ UNCHANGED <<app, varsPython, varsReact11, varsReact12, items, vars10, vars11>>

\* get_db after its yield: the finally clause closes the session, whether the
\* endpoint returned or an exception was thrown into the generator.  The
\* request is over.
Mutant_get_db_close(r) ==
    /\ app \in ItemApps
    /\ pc[r] \in {"returned", "raised"}
    /\ sessions' = IF pc[r] = "returned" THEN sessions \ {db[r]} ELSE sessions
    /\ db' = [db EXCEPT ![r] = 0]
    /\ pc' = [pc EXCEPT ![r] = "idle"]
    /\ status_code' = [status_code EXCEPT ![r] = 0]
    /\ UNCHANGED <<app, varsPython, varsReact11, varsReact12, items, vars10, vars11>>

get_db_close(r) ==
    /\ app \in ItemApps
    /\ pc[r] \in {"returned", "raised"}
    /\ sessions' = sessions \ {db[r]}
    /\ db' = [db EXCEPT ![r] = 0]
    /\ pc' = [pc EXCEPT ![r] = "idle"]
    /\ status_code' = [status_code EXCEPT ![r] = 0]
    /\ UNCHANGED <<app, varsPython, varsReact11, varsReact12, items, vars10, vars11>>

\* Request r, holding its session, is served by an endpoint: the table becomes
\* what the endpoint leaves, and r has its status code.  An HTTPException, a
\* validation error or any other exception leaves r "raised".
Serve(r, reply) ==
    /\ app \in ItemApps
    /\ pc[r] = "open"
    /\ Cardinality(DOMAIN reply.items) <= MaxItems
    /\ \A k \in DOMAIN reply.items : k <= MaxItemId
    /\ items' = reply.items
    /\ pc' = [pc EXCEPT ![r] = IF reply.status < 400 THEN "returned" ELSE "raised"]
    /\ status_code' = [status_code EXCEPT ![r] = reply.status]
    /\ UNCHANGED <<app, varsPython, varsReact11, varsReact12, db, sessions, vars10, vars11>>

read_items(r, skip, limit) == Serve(r, ep_read_items(app, items, skip, limit))

create_item(r, body, t) == Serve(r, ep_create_item(app, items, body, t))

read_item(r, item_id) == Serve(r, ep_read_item(app, items, item_id))

update_item(r, item_id, body, t) ==
    Serve(r, ep_update_item(app, items, item_id, body, t))

delete_item(r, item_id) == Serve(r, ep_delete_item(app, items, item_id))

InitItems ==
    /\ items = <<>>
    /\ pc = [r \in Requests |-> "idle"]
    /\ status_code = [r \in Requests |-> 0]
    /\ db = [r \in Requests |-> 0]
    /\ sessions = {}

NextItems ==
    \/ \E r \in Requests : get_db_open(r)
    \/ \E r \in Requests, skip \in SkipValues, limit \in LimitValues :
          read_items(r, skip, limit)
    \/ \E r \in Requests, body \in CreateBodies(app), t \in Times :
          create_item(r, body, t)
    \/ \E r \in Requests, item_id \in ItemIds : read_item(r, item_id)
    \/ \E r \in Requests, item_id \in ItemIds, body \in UpdateBodies(app),
          t \in Times :
          update_item(r, item_id, body, t)
    \/ \E r \in Requests, item_id \in ItemIds : delete_item(r, item_id)
    \/ \E r \in Requests : get_db_close(r)

(***************************************************************************)
(* app12_react: the React client of app12 (ItemList, ItemDetail and the    *)
(* ItemService they call), running in one browser tab against the API.     *)
(* The API is the one above; a request is served in one step.              *)
(***************************************************************************)
varsSess == <<pc, status_code, db, sessions>>

\* useState's initial values
ItemList_initial == [items |-> <<>>, loading |-> TRUE, error |-> None]
ItemDetail_initial == [id |-> None, item |-> None, loading |-> TRUE, error |-> None]
ItemDetail_mounted(id) == [ItemDetail_initial EXCEPT !.id = Some(id)]

\* items.filter(item => item.id !== id)
FilterOut(rows, id) ==
    LET Keep(item) == item.id # id
    IN  SelectSeq(rows, Keep)

\* The ids of the rows a list shows
ShownIds(rows) == { rows[i].id : i \in 1 .. Len(rows) }

\* An awaited ItemService.deleteItem(id): the component whose handler awaits
\* it, the `items` its closure holds, and whether that component instance is
\* still mounted (a state setter of an unmounted instance does nothing)
DeleteRequest(component, id, closure) ==
    [component |-> component, id |-> id, items |-> closure, mounted |-> TRUE]

Unmount(reqs, component) ==
    [i \in 1 .. Len(reqs) |->
        IF reqs[i].component = component
        THEN [reqs[i] EXCEPT !.mounted = FALSE] ELSE reqs[i]]

RemoveAt(reqs, i) ==
    [j \in 1 .. Len(reqs) - 1 |-> IF j < i THEN reqs[j] ELSE reqs[j + 1]]

\* Requests other clients of the API make, as the replies the API gives them
OtherClientReplies ==
    { ep_create_item("app12", items, body, t) :
          body \in CreateBodies("app12"), t \in {0} }
    \cup { ep_delete_item("app12", items, id) : id \in ItemIds }
    \cup { ep_update_item("app12", items, id, [priority |-> None], 0) :
             id \in ItemIds }

\* The API serves a request of some other client
other_client(reply) ==
    /\ app = "app12_react"
    /\ Cardinality(DOMAIN reply.items) <= MaxItems
    /\ \A k \in DOMAIN reply.items : k <= MaxItemId
    /\ items' = reply.items
    /\ UNCHANGED <<app, varsPython, varsReact11, varsReact12, varsSess, vars10, vars11>>

\* ItemList's useEffect: fetchItems, from the GET to the state setters
ItemList_fetchItems ==
    /\ app = "app12_react"
    /\ location = "/" /\ ItemList.loading /\ dialog = None
    /\ LET reply == ep_read_items("app12", items, DefaultSkip, DefaultLimit)
       IN  ItemList' = IF reply.status = 200
                       THEN [ItemList EXCEPT !.items = reply.body,
                                             !.loading = FALSE]
                       ELSE [ItemList EXCEPT !.error = Some("Erro ao carregar itens"),
                                             !.loading = FALSE]
    /\ UNCHANGED <<app, varsPython, varsReact11, items, location, ItemDetail, dialog, confirmed,
                   requests, varsSess, vars10, vars11>>

\* A click on an item's Link: the router shows ItemDetail for that id
Link_to_item(id) ==
    /\ app = "app12_react"
    /\ location = "/" /\ dialog = None
    /\ ~ItemList.loading /\ ItemList.error = None
    /\ id \in ShownIds(ItemList.items)
    /\ location' = "/items/:id"
    /\ ItemList' = ItemList_initial
    /\ ItemDetail' = ItemDetail_mounted(id)
    /\ requests' = Unmount(requests, "ItemList")
    /\ UNCHANGED <<app, varsPython, varsReact11, items, dialog, confirmed, varsSess, vars10, vars11>>

\* The way back to the list
Link_to_list ==
    /\ app = "app12_react"
    /\ location = "/items/:id" /\ dialog = None
    /\ location' = "/"
    /\ ItemList' = ItemList_initial
    /\ ItemDetail' = ItemDetail_initial
    /\ requests' = Unmount(requests, "ItemDetail")
    /\ UNCHANGED <<app, varsPython, varsReact11, items, dialog, confirmed, varsSess, vars10, vars11>>

\* ItemDetail's useEffect: fetchItem
ItemDetail_fetchItem ==
    /\ app = "app12_react"
    /\ location = "/items/:id" /\ ItemDetail.loading /\ dialog = None
    /\ LET reply == ep_read_item("app12", items, ItemDetail.id[1])
       IN  ItemDetail' = IF reply.status = 200
                         THEN [ItemDetail EXCEPT !.item = reply.body,
                                                 !.loading = FALSE]
                         ELSE [ItemDetail EXCEPT !.error = Some("Erro ao carregar item"),
                                                 !.loading = FALSE]
    /\ UNCHANGED <<app, varsPython, varsReact11, items, location, ItemList, dialog, confirmed,
                   requests, varsSess, vars10, vars11>>

\* ItemList.handleDelete(id), up to window.confirm putting its dialog on screen.
\* The button belongs to a row of the rendered table.
ItemList_handleDelete(id) ==
    /\ app = "app12_react"
    /\ location = "/" /\ dialog = None
    /\ ~ItemList.loading /\ ItemList.error = None
    /\ id \in ShownIds(ItemList.items)
    /\ dialog' = Some([component |-> "ItemList", id |-> id])
    /\ confirmed' = None
    /\ UNCHANGED <<app, varsPython, varsReact11, items, location, ItemList, ItemDetail, requests,
                   varsSess, vars10, vars11>>

\* ItemDetail.handleDelete(), up to window.confirm putting its dialog on
\* screen.  The button is rendered once the item is loaded.
ItemDetail_handleDelete ==
    /\ app = "app12_react"
    /\ location = "/items/:id" /\ dialog = None
    /\ ~ItemDetail.loading /\ ItemDetail.error = None /\ ItemDetail.item # None
    /\ dialog' = Some([component |-> "ItemDetail", id |-> ItemDetail.id[1]])
    /\ confirmed' = None
    /\ UNCHANGED <<app, varsPython, varsReact11, items, location, ItemList, ItemDetail, requests,
                   varsSess, vars10, vars11>>

\* (Mutant: the handler without its `if`, calling deleteItem whatever the
\* answer.)
Mutant_handleDelete_confirm(answer) ==
    /\ app = "app12_react"
    /\ dialog # None
    /\ Len(requests) < MaxRequests
    /\ dialog' = None
    /\ confirmed' = Some(answer)
    /\ requests' = Append(requests,
                          DeleteRequest(dialog[1].component, dialog[1].id,
                                        IF dialog[1].component = "ItemList"
                                        THEN ItemList.items ELSE <<>>))
    /\ UNCHANGED <<app, varsPython, varsReact11, items, location, ItemList, ItemDetail,
                   varsSess, vars10, vars11>>

\* handleDelete from the return of window.confirm to its await: the user has
\* answered the dialog; on true the handler calls ItemService.deleteItem(id),
\* which sends the DELETE, on false it ends
handleDelete_confirm(answer) ==
    /\ app = "app12_react"
    /\ dialog # None
    /\ answer => Len(requests) < MaxRequests
    /\ dialog' = None
    /\ confirmed' = Some(answer)
    /\ requests' = IF answer
                   THEN Append(requests,
                               DeleteRequest(dialog[1].component, dialog[1].id,
                                             IF dialog[1].component = "ItemList"
                                             THEN ItemList.items ELSE <<>>))
                   ELSE requests
    /\ UNCHANGED <<app, varsPython, varsReact11, items, location, ItemList, ItemDetail,
                   varsSess, vars10, vars11>>

\* What the handler awaiting request req does when its promise settles:
\* ItemList filters the item out of the list its closure holds, or alerts;
\* ItemDetail navigates to the list, or sets its error
Settle(i, ok) ==
    LET req == requests[i]
        rest == RemoveAt(requests, i)
    IN  IF req.component = "ItemList"
        THEN /\ ItemList' = IF ok /\ req.mounted
                            THEN [ItemList EXCEPT !.items = FilterOut(req.items, req.id)]
                            ELSE ItemList
             /\ requests' = rest
             /\ UNCHANGED <<location, ItemDetail>>
        ELSE IF ok
        THEN /\ location' = "/"
             /\ ItemList' = IF location = "/" THEN ItemList ELSE ItemList_initial
             /\ ItemDetail' = ItemDetail_initial
             /\ requests' = Unmount(rest, "ItemDetail")
        ELSE /\ ItemDetail' = IF req.mounted
                              THEN [ItemDetail EXCEPT !.error = Some("Erro ao excluir item")]
                              ELSE ItemDetail
             /\ requests' = rest
             /\ UNCHANGED <<location, ItemList>>

\* The API serves the DELETE of request i and the awaiting handler continues
deleteItem_response(i) ==
    /\ app = "app12_react"
    /\ dialog = None
    /\ i \in 1 .. Len(requests)
    /\ LET reply == ep_delete_item("app12", items, requests[i].id)
       IN  /\ items' = reply.items
           /\ Settle(i, reply.status < 400)
    /\ UNCHANGED <<app, varsPython, varsReact11, dialog, confirmed, varsSess, vars10, vars11>>

\* The DELETE of request i fails before the API serves it
deleteItem_network_error(i) ==
    /\ app = "app12_react"
    /\ dialog = None
    /\ i \in 1 .. Len(requests)
    /\ Settle(i, FALSE)
    /\ UNCHANGED <<app, varsPython, varsReact11, items, dialog, confirmed, varsSess, vars10, vars11>>

InitReact12 ==
    /\ location = "/"
    /\ ItemList = ItemList_initial
    /\ ItemDetail = ItemDetail_initial
    /\ dialog = None
    /\ confirmed = None
    /\ requests = <<>>

NextReact12 ==
    \/ \E reply \in OtherClientReplies : other_client(reply)
    \/ ItemList_fetchItems
    \/ \E id \in ItemIds : Link_to_item(id)
    \/ Link_to_list
    \/ ItemDetail_fetchItem
    \/ \E id \in ItemIds : ItemList_handleDelete(id)
    \/ ItemDetail_handleDelete
    \/ \E answer \in BOOLEAN : handleDelete_confirm(answer)
    \/ \E i \in 1 .. MaxRequests : deleteItem_response(i)
    \/ \E i \in 1 .. MaxRequests : deleteItem_network_error(i)

(***************************************************************************)
(* app11_react: the React client of app11 (UserForm and the submitForm     *)
(* service it calls), running in one browser tab against the API above.    *)
(***************************************************************************)
\* The rules given to register(): minLength, min and max
ClientNameMinLen == 3
ClientAgeMin == 18
ClientAgeMax == 120
ClientMessageMinLen == 10

\* What the age input (type="number", registered without valueAsNumber) holds:
\* text, here as sequences of characters
AgeEmpty == <<>>
Age17 == <<"1", "7">>
Age18 == <<"1", "8">>

DigitValue(c) ==
    CASE c = "0" -> 0 [] c = "1" -> 1 [] c = "2" -> 2 [] c = "3" -> 3
      [] c = "4" -> 4 [] c = "5" -> 5 [] c = "6" -> 6 [] c = "7" -> 7
      [] c = "8" -> 8 [] c = "9" -> 9

\* The integer a text of decimal digits denotes; None for any other text, the
\* empty one included (Pydantic's int validator on a JSON string)
RECURSIVE ParseInt(_)
ParseInt(chars) ==
    IF chars = <<>> \/ chars[Len(chars)] \notin Digit THEN None
    ELSE IF Len(chars) = 1 THEN Some(DigitValue(chars[1]))
    ELSE LET high == ParseInt(SubSeq(chars, 1, Len(chars) - 1))
         IN  IF high = None THEN None
             ELSE Some(10 * high[1] + DigitValue(chars[Len(chars)]))

\* The inputs after reset(): no default values were given to useForm
EmptyForm ==
    [name |-> "", email |-> "", phone |-> <<>>, age |-> AgeEmpty,
     message |-> "", subscribe |-> FALSE]

\* A filled form that the client and the API both accept
BaseForm ==
    [name |-> Name3, email |-> EmailGood, phone |-> PhoneFormatted,
     age |-> Age18, message |-> Message10, subscribe |-> TRUE]

\* What the user may have typed
FormInputs ==
    { BaseForm,
      [BaseForm EXCEPT !.age = AgeEmpty],
      [BaseForm EXCEPT !.age = Age17],
      [BaseForm EXCEPT !.name = Name2],
      [BaseForm EXCEPT !.name = Name51],
      [BaseForm EXCEPT !.message = Message501],
      [BaseForm EXCEPT !.phone = PhoneShort],
      [BaseForm EXCEPT !.email = EmailBad] }

\* RegExp.test with the phone pattern: '$' matches at the end of the text only
JsTestPhone(v) ==
    Len(v) + 1 \in MatchPositions(PhonePattern, v, Len(PhonePattern))

\* The e-mail pattern, of the sample addresses, matches the well-formed one
JsTestEmail(v) == v = EmailGood

\* handleSubmit's validation against the rules given to register(); min and
\* max apply to an age that was typed
ClientValid(data) ==
    /\ data.name # "" /\ Len(data.name) >= ClientNameMinLen
    /\ data.email # "" /\ JsTestEmail(data.email)
    /\ data.phone # <<>> /\ JsTestPhone(data.phone)
    /\ data.age # AgeEmpty =>
          /\ ParseInt(data.age) # None
          /\ ParseInt(data.age)[1] >= ClientAgeMin
          /\ ParseInt(data.age)[1] <= ClientAgeMax
    /\ data.message # "" /\ Len(data.message) >= ClientMessageMinLen

\* The JSON body of api.post('/submit-form', formData) as UserForm's
\* validation reads it: the age arrives as a string and is converted to int;
\* None when it cannot be
RequestBody(data) ==
    IF ParseInt(data.age) = None THEN None
    ELSE Some([name |-> data.name, email |-> data.email, phone |-> data.phone,
               age |-> ParseInt(data.age), message |-> data.message,
               subscribe |-> data.subscribe])

\* The user fills in the form
type_fields(data) ==
    /\ app = "app11_react"
    /\ fields' = data
    /\ UNCHANGED <<app, varsPython, isSubmitting, submissionResult, awaiting,
                   varsReact12, vars10, vars11, varsI>>

\* A click on the submit button (disabled while isSubmitting): handleSubmit
\* validates and calls onSubmit, which runs up to its await
onSubmit ==
    /\ app = "app11_react"
    /\ ~isSubmitting
    /\ ClientValid(fields)
    /\ isSubmitting' = TRUE
    /\ submissionResult' = None
    /\ awaiting' = Some(fields)
    /\ UNCHANGED <<app, varsPython, fields, varsReact12, vars10, vars11, varsI>>

\* (Mutant: reset() moved to the finally block.)
Mutant_onSubmit_settled(ok, message, form_id) ==
    /\ submissionResult' =
          IF ok
          THEN Some([type |-> "success", message |-> message, formId |-> form_id])
          ELSE Some([type |-> "error", message |-> message])
    /\ fields' = EmptyForm
    /\ isSubmitting' = FALSE
    /\ awaiting' = None

\* onSubmit after its await: the try block's rest, or the catch block, and
\* the finally block
onSubmit_settled(ok, message, form_id) ==
    /\ submissionResult' =
          IF ok
          THEN Some([type |-> "success", message |-> message, formId |-> form_id])
          ELSE Some([type |-> "error", message |-> message])
    /\ fields' = IF ok THEN EmptyForm ELSE fields
    /\ isSubmitting' = FALSE
    /\ awaiting' = None

\* The API serves the POST of the awaited submitForm call and onSubmit
\* continues.  A 422 carries a list as its detail, which new Error() turns
\* into text.
submitForm_response ==
    /\ app = "app11_react"
    /\ awaiting # None
    /\ LET body == RequestBody(awaiting[1])
       IN  IF body = None
           THEN /\ resp11' = Reply11("submit_form", None, 422, None)
                /\ UNCHANGED form_submissions
           ELSE submit_form_served(body[1])
    /\ IF resp11'.status = 200
       THEN onSubmit_settled(TRUE, resp11'.body.message, resp11'.body.form_id)
       ELSE onSubmit_settled(FALSE, "[object Object]", None)
    /\ UNCHANGED <<app, varsPython, varsReact12, vars10, varsI>>

\* The POST fails before the API serves it
submitForm_network_error ==
    /\ app = "app11_react"
    /\ awaiting # None
    /\ onSubmit_settled(FALSE, "Network Error", None)
    /\ UNCHANGED <<app, varsPython, varsReact12, vars10, vars11, varsI>>

InitReact11 ==
    /\ fields = EmptyForm
    /\ isSubmitting = FALSE
    /\ submissionResult = None
    /\ awaiting = None

NextReact11 ==
    \/ \E data \in FormInputs : type_fields(data)
    \/ onSubmit
    \/ submitForm_response
    \/ submitForm_network_error

(***************************************************************************)
(* python: a source file of the repository run by the Python interpreter.  *)
(* The body of a file is the sequence of its top-level statements, as the  *)
(* parser gives them (comments are no statements).  Every statement of     *)
(* these files is an expression statement whose value is a string          *)
(* constant; `holds` records what the program quoted in the string does    *)
(* when it is run as a program: registering a route, starting a server,    *)
(* creating a file, binding names.                                         *)
(***************************************************************************)
\* src/app1-servidor-http/servidor.py
Body_app1 ==
    <<>>

\* src/app2-crud-arquivos/crud.py
Body_app2 ==
    <<>>

\* src/app3-mini-api-flask/api.py
Body_app3 ==
    <<>>

\* src/app4-crud-flask-sqlite/crud.py
Body_app4 ==
    <<>>

\* src/app5-autenticacao-flask/app.py
Body_app5 ==
    <<>>

\* src/app6-upload-arquivos-flask/app.py
Body_app6 ==
    <<>>

\* src/app7-api-rest-flask-blueprints/app.py
Body_app7 ==
    <<>>

\* src/app8-introducao-fastapi/app.py
Body_app8 ==
    << [kind |-> "Expr", value |-> "Constant", first |-> 28, last |-> 36,
        holds |-> {"route", "state"}],
       [kind |-> "Expr", value |-> "Constant", first |-> 63, last |-> 71,
        holds |-> {"route", "state"}],
       [kind |-> "Expr", value |-> "Constant", first |-> 83, last |-> 87,
        holds |-> {"route", "state"}],
       [kind |-> "Expr", value |-> "Constant", first |-> 97, last |-> 101,
        holds |-> {"route", "state"}],
       [kind |-> "Expr", value |-> "Constant", first |-> 109, last |-> 115,
        holds |-> {"route", "state"}],
       [kind |-> "Expr", value |-> "Constant", first |-> 125, last |-> 140,
        holds |-> {"route", "state"}],
       [kind |-> "Expr", value |-> "Constant", first |-> 152, last |-> 160,
        holds |-> {"route", "state"}],
       [kind |-> "Expr", value |-> "Constant", first |-> 165, last |-> 169,
        holds |-> {"route", "state"}],
       [kind |-> "Expr", value |-> "Constant", first |-> 174, last |-> 181,
        holds |-> {"state"}],
       [kind |-> "Expr", value |-> "Constant", first |-> 192, last |-> 202,
        holds |-> {"route", "state"}],
       [kind |-> "Expr", value |-> "Constant", first |-> 207, last |-> 217,
        holds |-> {"route", "state"}],
       [kind |-> "Expr", value |-> "Constant", first |-> 222, last |-> 230,
        holds |-> {"route", "state"}],
       [kind |-> "Expr", value |-> "Constant", first |-> 235, last |-> 246,
        holds |-> {"route", "state"}],
       [kind |-> "Expr", value |-> "Constant", first |-> 251, last |-> 264,
        holds |-> {"state"}],
       [kind |-> "Expr", value |-> "Constant", first |-> 269, last |-> 280,
        holds |-> {"route", "state"}] >>

\* src/app9-crud-fastapi-sqlite/app.py
Body_app9 ==
    << [kind |-> "Expr", value |-> "Constant", first |-> 45, last |-> 73,
        holds |-> {"file", "state"}],
       [kind |-> "Expr", value |-> "Constant", first |-> 78, last |-> 93,
        holds |-> {"state"}],
       [kind |-> "Expr", value |-> "Constant", first |-> 98, last |-> 128,
        holds |-> {"state"}],
       [kind |-> "Expr", value |-> "Constant", first |-> 133, last |-> 176,
        holds |-> {"state"}],
       [kind |-> "Expr", value |-> "Constant", first |-> 181, last |-> 243,
        holds |-> {"route", "state"}],
       [kind |-> "Expr", value |-> "Constant", first |-> 248, last |-> 254,
        holds |-> {"state"}],
       [kind |-> "Expr", value |-> "Constant", first |-> 259, last |-> 279,
        holds |-> {"route", "file", "state"}],
       [kind |-> "Expr", value |-> "Constant", first |-> 294, last |-> 336,
        holds |-> {"file", "state"}],
       [kind |-> "Expr", value |-> "Constant", first |-> 345, last |-> 385,
        holds |-> {"state"}],
       [kind |-> "Expr", value |-> "Constant", first |-> 390, last |-> 403,
        holds |-> {"state"}],
       [kind |-> "Expr", value |-> "Constant", first |-> 408, last |-> 426,
        holds |-> {"route", "state"}],
       [kind |-> "Expr", value |-> "Constant", first |-> 431, last |-> 444,
        holds |-> {"state"}] >>

\* src/app10-comunicacao-flask-react/app.py
Body_app10 ==
    << [kind |-> "Expr", value |-> "Constant", first |-> 56, last |-> 127,
        holds |-> {"route", "server", "state"}],
       [kind |-> "Expr", value |-> "Constant", first |-> 137, last |-> 176,
        holds |-> {}],
       [kind |-> "Expr", value |-> "Constant", first |-> 181, last |-> 266,
        holds |-> {}],
       [kind |-> "Expr", value |-> "Constant", first |-> 271, last |-> 371,
        holds |-> {}],
       [kind |-> "Expr", value |-> "Constant", first |-> 376, last |-> 429,
        holds |-> {}],
       [kind |-> "Expr", value |-> "Constant", first |-> 434, last |-> 556,
        holds |-> {}] >>

\* src/app11-formulario-react-fastapi/app.py
Body_app11 ==
    << [kind |-> "Expr", value |-> "Constant", first |-> 57, last |-> 83,
        holds |-> {"state"}],
       [kind |-> "Expr", value |-> "Constant", first |-> 85, last |-> 143,
        holds |-> {"route", "server", "state"}],
       [kind |-> "Expr", value |-> "Constant", first |-> 152, last |-> 189,
        holds |-> {}],
       [kind |-> "Expr", value |-> "Constant", first |-> 194, last |-> 346,
        holds |-> {}],
       [kind |-> "Expr", value |-> "Constant", first |-> 351, last |-> 455,
        holds |-> {}],
       [kind |-> "Expr", value |-> "Constant", first |-> 460, last |-> 486,
        holds |-> {}],
       [kind |-> "Expr", value |-> "Constant", first |-> 491, last |-> 527,
        holds |-> {}] >>

\* src/app12-crud-fastapi-react-sqlite/app.py
Body_app12 ==
    << [kind |-> "Expr", value |-> "Constant", first |-> 81, last |-> 107,
        holds |-> {"file", "state"}],
       [kind |-> "Expr", value |-> "Constant", first |-> 110, last |-> 125,
        holds |-> {"state"}],
       [kind |-> "Expr", value |-> "Constant", first |-> 128, last |-> 159,
        holds |-> {"state"}],
       [kind |-> "Expr", value |-> "Constant", first |-> 162, last |-> 202,
        holds |-> {"state"}],
       [kind |-> "Expr", value |-> "Constant", first |-> 205, last |-> 270,
        holds |-> {"route", "server", "file", "state"}],
       [kind |-> "Expr", value |-> "Constant", first |-> 276, last |-> 321,
        holds |-> {}],
       [kind |-> "Expr", value |-> "Constant", first |-> 325, last |-> 486,
        holds |-> {}],
       [kind |-> "Expr", value |-> "Constant", first |-> 489, last |-> 616,
        holds |-> {}],
       [kind |-> "Expr", value |-> "Constant", first |-> 619, last |-> 654,
        holds |-> {}],
       [kind |-> "Expr", value |-> "Constant", first |-> 658, last |-> 680,
        holds |-> {}],
       [kind |-> "Expr", value |-> "Constant", first |-> 683, last |-> 725,
        holds |-> {}],
       [kind |-> "Expr", value |-> "Constant", first |-> 728, last |-> 803,
        holds |-> {}],
       [kind |-> "Expr", value |-> "Constant", first |-> 806, last |-> 974,
        holds |-> {}],
       [kind |-> "Expr", value |-> "Constant", first |-> 977, last |-> 1023,
        holds |-> {}] >>

SourceFiles ==
    { "app1-servidor-http/servidor.py",
      "app2-crud-arquivos/crud.py",
      "app3-mini-api-flask/api.py",
      "app4-crud-flask-sqlite/crud.py",
      "app5-autenticacao-flask/app.py",
      "app6-upload-arquivos-flask/app.py",
      "app7-api-rest-flask-blueprints/app.py",
      "app8-introducao-fastapi/app.py",
      "app9-crud-fastapi-sqlite/app.py",
      "app10-comunicacao-flask-react/app.py",
      "app11-formulario-react-fastapi/app.py",
      "app12-crud-fastapi-react-sqlite/app.py" }

Body(f) ==
    CASE f = "app1-servidor-http/servidor.py" -> Body_app1
      [] f = "app2-crud-arquivos/crud.py" -> Body_app2
      [] f = "app3-mini-api-flask/api.py" -> Body_app3
      [] f = "app4-crud-flask-sqlite/crud.py" -> Body_app4
      [] f = "app5-autenticacao-flask/app.py" -> Body_app5
      [] f = "app6-upload-arquivos-flask/app.py" -> Body_app6
      [] f = "app7-api-rest-flask-blueprints/app.py" -> Body_app7
      [] f = "app8-introducao-fastapi/app.py" -> Body_app8
      [] f = "app9-crud-fastapi-sqlite/app.py" -> Body_app9
      [] f = "app10-comunicacao-flask-react/app.py" -> Body_app10
      [] f = "app11-formulario-react-fastapi/app.py" -> Body_app11
      [] f = "app12-crud-fastapi-react-sqlite/app.py" -> Body_app12

\* How a file can be run: python <file>, or import
RunModes == {"__main__", "import"}

\* (Mutant: the text of the string run as the program it quotes.)
Mutant_Exec(s) == s.holds

\* Executing one statement: an expression statement evaluates its expression
\* and discards the value, and evaluating a constant does nothing
Exec(s) ==
    IF s.kind = "Expr" /\ s.value = "Constant" THEN {} ELSE s.holds

\* The interpreter executes the next top-level statement of the file
exec_statement ==
    /\ app = "python"
    /\ ~exited
    /\ stmt < Len(Body(file))
    /\ effects' = effects \cup Exec(Body(file)[stmt + 1])
    /\ stmt' = stmt + 1
    /\ UNCHANGED <<app, file, run_as, exited, varsReact11, varsReact12,
                   vars10, vars11, varsI>>

\* The end of the file is reached: the script exits, the import returns
end_of_file ==
    /\ app = "python"
    /\ ~exited
    /\ stmt = Len(Body(file))
    /\ exited' = TRUE
    /\ UNCHANGED <<app, file, run_as, stmt, effects, varsReact11, varsReact12,
                   vars10, vars11, varsI>>

InitPython ==
    /\ IF app = "python"
       THEN file \in SourceFiles /\ run_as \in RunModes
       ELSE file = "" /\ run_as = ""
    /\ stmt = 0
    /\ exited = FALSE
    /\ effects = {}

NextPython ==
    \/ exec_statement
    \/ end_of_file

(***************************************************************************)
(* Specifications                                                          *)
(***************************************************************************)
Apps == {"app10", "app11", "app11_react", "app12_react", "python"} \cup ItemApps

\* One of the programs `which` has been started
Started(which) ==
    /\ app \in which
    /\ Init10
    /\ Init11
    /\ InitItems
    /\ InitReact12
    /\ InitReact11
    /\ InitPython

Init == Started(Apps)

Next ==
    \/ Next10
    \/ Next11
    \/ NextItems
    \/ NextReact12
    \/ NextReact11
    \/ NextPython

\* The same programs, one family at a time
Spec10 == Started({"app10"}) /\ [][Next10]_vars
Spec11 == Started({"app11"}) /\ [][Next11]_vars
SpecItems == Started(ItemApps) /\ [][NextItems]_vars
SpecReact12 == Started({"app12_react"}) /\ [][NextReact12]_vars
SpecReact11 == Started({"app11_react"}) /\ [][NextReact11]_vars
SpecPython == Started({"python"}) /\ [][NextPython]_vars

Spec == Init /\ [][Next]_vars

(***************************************************************************)
(* Claims about app10                                                      *)
(***************************************************************************)
HasTitle10(json) == Truthy10(json) /\ "title" \in DOMAIN json[1]

\* C3: GET, PUT and DELETE on /api/tasks/<task_id> for a task_id that matches
\* no task each answer 404 with the error body and leave the list unchanged.
\* (Every step is one request, and resp10' names its route and task_id.)
C3_MissingTaskIs404 ==
    [][ ( /\ resp10'.op \in {"get_task", "update_task", "delete_task"}
          /\ FindTask(tasks, resp10'.task_id[1]) = 0 ) =>
            /\ resp10'.status = 404
            /\ resp10'.body = ErrNotFound10
            /\ tasks' = tasks ]_vars

\* a PUT for an id that is in no task has been answered 404, on a list that
\* still holds tasks (and differs from the initial one)
C3_Witness ==
    /\ resp10.op = "update_task"
    /\ resp10.status = 404
    /\ FindTask(tasks, resp10.task_id[1]) = 0
    /\ tasks # <<>>
    /\ tasks # InitialTasks

\* C4: POST /api/tasks whose body is missing, empty or without 'title' answers
\* 400 and leaves the list unchanged (nothing appended, no id consumed).
C4_InvalidCreateIs400 ==
    [][ \A json \in JsonBodies10 :
          (~HasTitle10(json) /\ create_task(json)) =>
            /\ resp10'.status = 400
            /\ resp10'.body = ErrInvalid10
            /\ tasks' = tasks ]_vars

\* an invalid POST has been answered 400 on a list that was changed before
C4_Witness ==
    /\ resp10.op = "create_task"
    /\ resp10.status = 400
    /\ Len(tasks) = 2

\* C5: in every reachable state of the list, the empty list included, POST
\* /api/tasks with a body containing 'title' answers 201 with the new task and
\* appends exactly that task, 'completed' defaulting to false.
C5_CreateAlways201 ==
    [][ \A json \in JsonBodies10 :
          (HasTitle10(json) /\ create_task(json)) =>
            /\ resp10'.status = 201
            /\ resp10'.body.title = json[1].title
            /\ resp10'.body.completed = DictGet(json[1], "completed", FALSE)
            /\ tasks' = Append(tasks, resp10'.body) ]_vars

(***************************************************************************)
(* Claims about app11                                                      *)
(***************************************************************************)
\* C8: whatever bodies are sent straight to POST /api/submit-form, every entry
\* of form_submissions has a name of 3..50 characters, an age that is absent or
\* 18..120, a message of 10..500 characters and a phone matching the pattern.
C8_StoredFormsValid ==
    \A id \in DOMAIN form_submissions :
        LET f == form_submissions[id] IN
        /\ Len(f.name) >= NameMinLen /\ Len(f.name) <= NameMaxLen
        /\ f.age = None \/ (f.age[1] >= AgeMin /\ f.age[1] <= AgeMax)
        /\ Len(f.message) >= MessageMinLen /\ Len(f.message) <= MessageMaxLen
        /\ ReMatchPhone(f.phone)

\* a body that breaks a constraint has just been refused while forms at the
\* edges of the constraints are stored
C8_Witness ==
    /\ resp11.op = "submit_form"
    /\ resp11.status = 422
    /\ \E id \in DOMAIN form_submissions : form_submissions[id].age = Some(AgeMax)
    /\ \E id \in DOMAIN form_submissions : form_submissions[id].name = Name50

\* C9: a successful submit_form stores the submitted form data under a form_id
\* no earlier submission got; no later request overwrites or removes an entry;
\* GET /api/submissions/{form_id} returns the entry stored under a form_id that
\* was returned (the keys of form_submissions are exactly those) and answers
\* 404 for any other.
C9_SubmissionsKept ==
    [][ /\ \A id \in DOMAIN form_submissions :
              /\ id \in DOMAIN form_submissions'
              /\ form_submissions'[id] = form_submissions[id]
        /\ \A body \in Bodies11 :
              (resp11'.op = "submit_form" /\ resp11'.status = 200
                 /\ submit_form(body)) =>
                LET id == resp11'.body.form_id[1] IN
                /\ id \notin DOMAIN form_submissions
                /\ DOMAIN form_submissions' = DOMAIN form_submissions \cup {id}
                /\ form_submissions'[id] = FormDict(body)
        /\ ~(resp11'.op = "submit_form" /\ resp11'.status = 200) =>
              DOMAIN form_submissions' = DOMAIN form_submissions
        /\ resp11'.op = "get_submission" =>
              LET id == resp11'.form_id[1] IN
              IF id \in DOMAIN form_submissions
              THEN /\ resp11'.status = 200
                   /\ resp11'.body = Some(form_submissions[id])
              ELSE resp11'.status = 404 ]_vars

\* a stored form has been read back while another, different form is stored too
C9_Witness ==
    /\ resp11.op = "get_submission"
    /\ resp11.status = 200
    /\ resp11.body = Some(form_submissions[resp11.form_id[1]])
    /\ \E id \in DOMAIN form_submissions :
          /\ id # resp11.form_id[1]
          /\ form_submissions[id] # form_submissions[resp11.form_id[1]]

(***************************************************************************)
(* Claims about app9 and app12                                             *)
(*                                                                         *)
(* A claim about what an endpoint answers is stated of the endpoint        *)
(* function in every reachable state of the table, for every request the   *)
(* model draws.                                                            *)
(***************************************************************************)
ValidCreateBodies(a) == { b \in CreateBodies(a) : ItemCreateValid(a, b) }
ValidUpdateBodies(a) == { b \in UpdateBodies(a) : ItemUpdateValid(a, b) }

\* C1: in every reachable state of app9's table, POST /items/ with a valid
\* ItemCreate body answers 201 with the created item, whose title and
\* description are the submitted ones and whose id no stored item has; the
\* table grows by exactly that item and every other row is as it was.
C1_CreateReturnsNewItem ==
    app = "app9" =>
      \A body \in ValidCreateBodies("app9"), t \in Times :
        LET reply == ep_create_item("app9", items, body, t)
            new == reply.body[1]
        IN  /\ reply.status = 201
            /\ reply.body # None
            /\ new.title = body.title
            /\ new.description = DictGet(body, "description", None)
            /\ new.id \notin DOMAIN items
            /\ DOMAIN reply.items = DOMAIN items \cup {new.id}
            /\ reply.items[new.id] = new
            /\ \A k \in DOMAIN items : reply.items[k] = items[k]

\* a POST has been answered 201 and the table holds a row whose key is not
\* the number of rows (a row with a smaller key was deleted before)
C1_Witness ==
    /\ app = "app9"
    /\ \E r \in Requests : status_code[r] = 201
    /\ DOMAIN items = {2}

\* C2: in app9 and app12, read_item, update_item and delete_item called with an
\* item_id that is not in the table answer 404 and leave the table as it was.
C2_MissingItemIs404 ==
    app \in ItemApps =>
      \A item_id \in ItemIds \ DOMAIN items :
        /\ ep_read_item(app, items, item_id) = ReplyI(items, 404, None)
        /\ ep_delete_item(app, items, item_id) = ReplyI(items, 404, None)
        /\ \A body \in ValidUpdateBodies(app), t \in Times :
              ep_update_item(app, items, item_id, body, t)
                = ReplyI(items, 404, None)

\* a request has been answered 404 while the table holds rows
C2_Witness ==
    /\ app = "app12"
    /\ \E r \in Requests : status_code[r] = 404 /\ pc[r] = "raised"
    /\ Cardinality(DOMAIN items) = 2

\* C6 as claimed: update_item on an existing item leaves every field the body
\* does not supply, the id and every other row as they were.
C6_UpdateKeepsUnsupplied ==
    app \in ItemApps =>
      \A item_id \in DOMAIN items, body \in ValidUpdateBodies(app), t \in Times :
        LET after == ep_update_item(app, items, item_id, body, t).items
        IN  /\ DOMAIN after = DOMAIN items
            /\ \A k \in DOMAIN items \ {item_id} : after[k] = items[k]
            /\ after[item_id].id = item_id
            /\ \A f \in DOMAIN items[item_id] \ DOMAIN body :
                  after[item_id][f] = items[item_id][f]

\* C6 as amended: update_item on an existing item leaves every field the body
\* does not supply, other than updated_at (which onupdate=func.now() sets),
\* the id and every other row as they were.
C6_UpdateKeepsUnsuppliedButUpdatedAt ==
    app \in ItemApps =>
      \A item_id \in DOMAIN items, body \in ValidUpdateBodies(app), t \in Times :
        LET after == ep_update_item(app, items, item_id, body, t).items
        IN  /\ DOMAIN after = DOMAIN items
            /\ \A k \in DOMAIN items \ {item_id} : after[k] = items[k]
            /\ after[item_id].id = item_id
            /\ \A f \in DOMAIN items[item_id] \ (DOMAIN body \cup {"updated_at"}) :
                  after[item_id][f] = items[item_id][f]

\* an update has been written to one of two rows: it has an updated_at, and
\* still holds a description that no PUT body supplies
C6_Witness ==
    /\ app \in ItemApps
    /\ Cardinality(DOMAIN items) = 2
    /\ \E r \in Requests : status_code[r] = 200 /\ pc[r] = "returned"
    /\ \E k \in DOMAIN items :
          /\ items[k].updated_at # None
          /\ items[k].description = Some("D")

\* C7: in every state app12 reaches through POST, PUT and DELETE, every stored
\* item has a title of 1 to 100 characters and an integer priority between 1
\* and 5, so that it can be returned through schemas.Item.
C7_StoredItemsValid ==
    app = "app12" =>
      \A k \in DOMAIN items :
        /\ items[k].title # None
        /\ Len(items[k].title[1]) >= TitleMinLen
        /\ Len(items[k].title[1]) <= TitleMaxLen
        /\ items[k].priority # None
        /\ items[k].priority[1] >= PriorityMin
        /\ items[k].priority[1] <= PriorityMax
        /\ ItemResponseValid("app12", items[k])

\* C10: every open session is the one held by a request in flight, no two
\* requests in flight hold the same session, and a request that has ended
\* (by a return or by an exception) holds none: no session stays open after
\* its request.
C10_SessionPerRequest ==
    app \in ItemApps =>
      /\ sessions = { db[r] : r \in { q \in Requests : pc[q] # "idle" } }
      /\ \A r \in Requests : pc[r] = "idle" => db[r] = 0
      /\ \A r1, r2 \in Requests :
            (r1 # r2 /\ pc[r1] # "idle" /\ pc[r2] # "idle") => db[r1] # db[r2]

\* one request has raised HTTPException 404 and is about to end while another
\* is being served with a session of its own
C10_Witness ==
    /\ app \in ItemApps
    /\ \E r1, r2 \in Requests :
          /\ pc[r1] = "raised" /\ status_code[r1] = 404
          /\ pc[r2] = "open"
          /\ db[r1] # db[r2]
          /\ sessions = {db[r1], db[r2]}

\* C11: in every reachable state of app9's table, DELETE /items/{item_id} on a
\* stored item answers 204 without a body and removes that row and no other;
\* crud.delete_item returns True exactly when the row existed; on the table
\* it leaves, GET and DELETE of the same id answer 404.
C11_DeleteRemovesExactlyThatItem ==
    app = "app9" =>
      /\ \A item_id \in ItemIds :
            crud_delete_item(items, item_id).success <=> item_id \in DOMAIN items
      /\ \A item_id \in DOMAIN items :
            LET reply == ep_delete_item("app9", items, item_id)
            IN  /\ reply.status = 204
                /\ reply.body = None
                /\ DOMAIN reply.items = DOMAIN items \ {item_id}
                /\ \A k \in DOMAIN reply.items : reply.items[k] = items[k]
                /\ ep_read_item("app9", reply.items, item_id).status = 404
                /\ ep_delete_item("app9", reply.items, item_id)
                      = ReplyI(reply.items, 404, None)

\* a DELETE has been answered 204 and another row is still stored
C11_Witness ==
    /\ app = "app9"
    /\ \E r \in Requests : status_code[r] = 204 /\ pc[r] = "returned"
    /\ Cardinality(DOMAIN items) = 1

\* C12: in app9 and app12, read_items(skip, limit) answers 200 with the rows
\* that follow the first `skip` rows of the table, at most `limit` of them;
\* with the default skip and limit it returns every stored row exactly once.
C12_ReadItemsPaginates ==
    app \in ItemApps =>
      \A skip \in SkipValues, limit \in LimitValues :
        LET reply == ep_read_items(app, items, skip, limit)
            rows == RowsInOrder(items)
            rest == IF Len(rows) > skip THEN Len(rows) - skip ELSE 0
        IN  /\ reply.status = 200
            /\ Len(reply.body) <= limit
            /\ Len(reply.body) = IF rest < limit THEN rest ELSE limit
            /\ \A i \in 1 .. Len(reply.body) : reply.body[i] = rows[skip + i]
            /\ (skip = DefaultSkip /\ limit = DefaultLimit) =>
                  \A k \in DOMAIN items :
                    Cardinality({ i \in 1 .. Len(reply.body) :
                                    reply.body[i] = items[k] }) = 1

(***************************************************************************)
(* Claims about the React client of app12                                  *)
(***************************************************************************)
\* C13: a DELETE request is sent only in the step in which window.confirm
\* returns true for the dialog of that component and item; and the step in
\* which window.confirm returns false sends nothing and leaves the server's
\* table, the state of ItemList and ItemDetail and the route as they were.
C13_DeleteOnlyAfterConfirm ==
    [][ /\ Len(requests') > Len(requests) =>
              /\ dialog # None
              /\ confirmed' = Some(TRUE)
              /\ requests' = Append(requests, requests'[Len(requests')])
              /\ requests'[Len(requests')].component = dialog[1].component
              /\ requests'[Len(requests')].id = dialog[1].id
        /\ (dialog # None /\ dialog' = None /\ confirmed' = Some(FALSE)) =>
              UNCHANGED <<items, ItemList, ItemDetail, location, requests>>
      ]_vars

\* the user has declined the dialog of ItemDetail.handleDelete: the item is
\* still stored and shown, and no request is awaited
C13_Witness ==
    /\ app = "app12_react"
    /\ confirmed = Some(FALSE) /\ dialog = None
    /\ location = "/items/:id"
    /\ ItemDetail.item # None
    /\ ItemDetail.id[1] \in DOMAIN items
    /\ requests = <<>>

(***************************************************************************)
(* Claims about the React client of app11                                  *)
(***************************************************************************)
\* C14: a step that starts a submission sets isSubmitting and clears
\* submissionResult, leaving the fields; isSubmitting is true exactly while a
\* submitForm call is awaited; the step that ends the call sets isSubmitting
\* false and, when the API stored the submission, sets submissionResult to
\* 'success' with the form_id the API returned and resets the fields, and
\* otherwise sets it to 'error' and leaves the fields as they were.
C14_SubmissionFeedback ==
    [][ /\ isSubmitting <=> awaiting # None
        /\ (awaiting = None /\ awaiting' # None) =>
              /\ isSubmitting' = TRUE
              /\ submissionResult' = None
              /\ fields' = fields
        /\ (awaiting # None /\ awaiting' = None) =>
              /\ isSubmitting' = FALSE
              /\ submissionResult' # None
              /\ IF form_submissions' # form_submissions
                 THEN /\ resp11'.status = 200
                      /\ submissionResult'[1].type = "success"
                      /\ submissionResult'[1].formId = resp11'.body.form_id
                      /\ submissionResult'[1].formId # None
                      /\ submissionResult'[1].formId[1] \in
                            DOMAIN form_submissions' \ DOMAIN form_submissions
                      /\ fields' = EmptyForm
                 ELSE /\ submissionResult'[1].type = "error"
                      /\ fields' = fields
      ]_vars

\* a submission has failed (the form went out with the optional age left
\* empty) after an earlier one succeeded: the result is 'error', the button is
\* enabled again and the fields still hold what was typed
C14_Witness ==
    /\ app = "app11_react"
    /\ form_submissions # <<>>
    /\ ~isSubmitting /\ awaiting = None
    /\ submissionResult # None
    /\ submissionResult[1].type = "error"
    /\ resp11.status = 422
    /\ fields = [BaseForm EXCEPT !.age = AgeEmpty]

(***************************************************************************)
(* Claims about the source files run as they are                           *)
(***************************************************************************)
\* C17: every top-level statement of every source file is an expression
\* statement whose value is a string constant, and in every state of a run of
\* any of the files, as a script or as an import, nothing has been done: no
\* socket opened, no route registered, no server or thread started, no file
\* or in-memory state changed; the run ends once the statements are passed.
C17_NothingRuns ==
    app = "python" =>
      /\ \A f \in SourceFiles : \A i \in 1 .. Len(Body(f)) :
            Body(f)[i].kind = "Expr" /\ Body(f)[i].value = "Constant"
      /\ effects = {}
      /\ stmt <= Len(Body(file))
      /\ exited => stmt = Len(Body(file))
      /\ (~exited) => (ENABLED exec_statement \/ ENABLED end_of_file)

\* app10's file has been run as a script to its end, past the string that
\* quotes the Flask application and its app.run()
C17_Witness ==
    /\ app = "python"
    /\ file = "app10-comunicacao-flask-react/app.py"
    /\ run_as = "__main__"
    /\ stmt = Len(Body_app10)
    /\ \E i \in 1 .. stmt : "server" \in Body_app10[i].holds
    /\ exited

====
